---- MODULE Spec2Model ----
(***************************************************************************)
(* Ear-clipping triangulation (src/main.cpp).                              *)
(*                                                                         *)
(* Vec2f coordinates are floats in the source.  Every coordinate used here *)
(* is a small integer, and every intermediate value (differences, products *)
(* and sums of them) stays far below 2^24, so each float operation of the  *)
(* source is exact and is modelled by the same operation on integers.      *)
(*                                                                         *)
(* The source indexes vectors from 0; the model keeps the source's 0-based *)
(* indices (i, prevIndex, currentIndex, nextIndex) and reads element k of  *)
(* a vector with At(vertices, k) == vertices[k + 1].                       *)
(***************************************************************************)
EXTENDS Integers, Sequences, FiniteSets

\* Bounds of the model: coordinates of the enumerated inputs lie in
\* 0..MaxCoord, enumerated polygons have at most MaxN vertices.
\* An isClockwise applied alone is given at most MaxFnN vertices.
MaxCoord == 2
MaxN == 5
MaxFnN == 4

VARIABLES
    input,      \* the vertex sequence as the caller passed it (never changed)
    vertices,   \* triangulate's in/out parameter `vertices`
    triangles,  \* triangulate's local `triangles`
    pc,         \* position inside triangulate
    i,          \* loop variable of the scan (line 116)
    earFound,   \* local `earFound` (line 113)
    oob,        \* the places where an out-of-range vector read has happened
    fn,         \* the function under way: triangulate, or one applied alone
    fnPoly,     \* argument of isClockwise when the function is applied alone
    fnTri,      \* arguments <<point, prev, current, next>> of isPointInsideTriangle
    fnOut       \* results returned so far by the function applied alone

vars ==
    <<input, vertices, triangles, pc, i, earFound, oob, fn, fnPoly, fnTri, fnOut>>

triVars == <<input, vertices, triangles, pc, i, earFound, oob>>
fnVars == <<fn, fnPoly, fnTri, fnOut>>

----------------------------------------------------------------------------
\* Data

Vec2f(px, py) == [x |-> px, y |-> py]

Coords == 0..MaxCoord

Points == {Vec2f(px, py) : px \in Coords, py \in Coords}

\* The polygon of main().
DemoPolygon ==
    <<Vec2f(-1, -1), Vec2f(-2, 1), Vec2f(1, 1), Vec2f(0, 0), Vec2f(3, -1)>>

\* s is a sequence of at most n points of the grid, or the polygon of main().
IsPolygon(s, n) ==
    \/ \E m \in 0..n : s \in [1..m -> Points]
    \/ s = DemoPolygon

FnTriangles == [1..4 -> Points]

At(s, k) == s[k + 1]

InRange(s, k) == k >= 0 /\ k < Len(s)

----------------------------------------------------------------------------
\* Vector primitives

Sub(vec1, vec2) == Vec2f(vec1.x - vec2.x, vec1.y - vec2.y)

crossProduct(a, b) == a.x * b.y - a.y * b.x

----------------------------------------------------------------------------
\* isClockwise

\* The value of `sum` after the first k iterations of the loop of isClockwise.
RECURSIVE ShoelaceSum(_, _)
ShoelaceSum(s, k) ==
    IF k = 0 THEN 0
    ELSE LET current == At(s, k - 1)
             next == At(s, k % Len(s))
         IN  ShoelaceSum(s, k - 1) + (next.x - current.x) * (next.y + current.y)

\* isClockwise with the comparison the wrong way round.
isClockwiseFlipped(s) == ShoelaceSum(s, Len(s)) < 0

\* isClockwise with >= for >.
isClockwiseNonStrict(s) == ShoelaceSum(s, Len(s)) >= 0

isClockwise(s) == ShoelaceSum(s, Len(s)) > 0

----------------------------------------------------------------------------
\* isConvex

isConvex(prev, current, next) ==
    crossProduct(Sub(prev, current), Sub(next, current)) > 0

----------------------------------------------------------------------------
\* isPointInsideTriangle

\* isPointInsideTriangle with >= for >: boundary points count as outside.
isPointInsideTriangleStrict(point, prev, current, next) ==
    LET alpha == crossProduct(Sub(current, prev), Sub(point, prev))
        beta == crossProduct(Sub(next, current), Sub(point, current))
        gamma == crossProduct(Sub(prev, next), Sub(point, next))
    IN  ~(alpha >= 0 \/ beta >= 0 \/ gamma >= 0)

isPointInsideTriangle(point, prev, current, next) ==
    LET prevToCurrent == Sub(current, prev)
        currentToNext == Sub(next, current)
        nextToPrev == Sub(prev, next)
        prevToPoint == Sub(point, prev)
        currentToPoint == Sub(point, current)
        nextToPoint == Sub(point, next)
        alpha == crossProduct(prevToCurrent, prevToPoint)
        beta == crossProduct(currentToNext, currentToPoint)
        gamma == crossProduct(nextToPrev, nextToPoint)
    IN  ~(alpha > 0 \/ beta > 0 \/ gamma > 0)

----------------------------------------------------------------------------
\* isEar

\* isEar without its containment test.
isEarAlways(s, prevIndex, currentIndex, nextIndex) == TRUE

isEar(s, prevIndex, currentIndex, nextIndex) ==
    LET prev == At(s, prevIndex)
        current == At(s, currentIndex)
        next == At(s, nextIndex)
    IN  \A j \in 0..(Len(s) - 1) :
            (j # prevIndex /\ j # currentIndex /\ j # nextIndex)
                => ~isPointInsideTriangle(At(s, j), prev, current, next)

----------------------------------------------------------------------------
\* std::reverse and std::vector::erase

\* std::reverse left out.
ReverseNot(s) == s

Reverse(s) == [k \in 1..Len(s) |-> s[Len(s) + 1 - k]]

\* erase of the range [k, k + 2) for the single element k.
EraseTwo(s, k) == [m \in 1..(Len(s) - 2) |-> IF m <= k THEN s[m] ELSE s[m + 2]]

\* vertices.erase(vertices.begin() + k)
Erase(s, k) == [m \in 1..(Len(s) - 1) |-> IF m <= k THEN s[m] ELSE s[m + 1]]

----------------------------------------------------------------------------
\* triangulate

\* prevIndex and nextIndex of lines 118 and 120.  The source computes them in
\* size_t arithmetic: for 0 <= k < size the sum k - 1 + size wraps (when k = 0)
\* to the same value the integers give, so no width is lost here.
\* prevIndex one too far back.
PrevIndexOffByOne(s, k) == (k - 2 + Len(s)) % Len(s)

PrevIndex(s, k) == (k - 1 + Len(s)) % Len(s)

NextIndex(s, k) == (k + 1) % Len(s)

\* isClockwise reading vertices[i + 1] without the modulo.
ClockwiseReadsNoWrap(s) ==
    UNION {{k, k + 1} : k \in 0..(Len(s) - 1)}

\* The indices isClockwise reads (lines 28-29).
ClockwiseReads(s) ==
    UNION {{k, (k + 1) % Len(s)} : k \in 0..(Len(s) - 1)}

\* The indices the scan reads at position k (lines 123-125).
NeighbourReads(s, k) == {PrevIndex(s, k), k, NextIndex(s, k)}

\* The indices the final triangle reads (line 145).
FinalReads == {0, 1, 2}

\* The place named `site`, when one of the reads `idx` of `s` is out of range.
OutOfRange(s, idx, site) ==
    IF \E k \in idx : ~InRange(s, k) THEN {site} ELSE {}

\* The condition of line 128 at scan position k.
IsClippable(s, k) ==
    /\ isConvex(At(s, PrevIndex(s, k)), At(s, k), At(s, NextIndex(s, k)))
    /\ isEar(s, PrevIndex(s, k), k, NextIndex(s, k))

\* The triangle pushed at line 130.
EarTriangle(s, k) ==
    <<At(s, PrevIndex(s, k)), At(s, k), At(s, NextIndex(s, k))>>

\* The test of the while loop (line 112) and, when it holds, the start of
\* an iteration (lines 113 and 116).
EnterLoop(s) ==
    IF Len(s) > 3
    THEN pc' = "scan" /\ earFound' = FALSE /\ i' = 0
    ELSE pc' = "final" /\ UNCHANGED <<earFound, i>>

Init ==
    /\ IsPolygon(input, MaxN)
    /\ vertices = input
    /\ triangles = <<>>
    /\ pc = "start"
    /\ i = 0
    /\ earFound = FALSE
    /\ oob = {}
    /\ fn = "triangulate"
    /\ fnPoly = <<>>
    /\ fnTri = <<>>
    /\ fnOut = <<>>

\* Lines 105-112: force clockwise winding, then test the loop condition.
Normalize ==
    /\ pc = "start"
    /\ vertices' = IF ~isClockwise(vertices) THEN Reverse(vertices) ELSE vertices
    /\ oob' = oob \cup OutOfRange(vertices, ClockwiseReads(vertices), "isClockwise")
    /\ EnterLoop(vertices')
    /\ UNCHANGED <<input, triangles, fnVars>>

\* Lines 116-135 with the condition of line 128 true: clip vertex i, leave
\* the scan, and test the loop condition again.
Clip ==
    /\ pc = "scan"
    /\ i < Len(vertices)
    /\ IsClippable(vertices, i)
    /\ triangles' = Append(triangles, EarTriangle(vertices, i))
    /\ vertices' = Erase(vertices, i)
    /\ oob' = oob \cup OutOfRange(vertices, NeighbourReads(vertices, i), "neighbour")
    /\ IF Len(vertices') > 3
       THEN pc' = "scan" /\ earFound' = FALSE /\ i' = 0
       ELSE pc' = "final" /\ earFound' = TRUE /\ i' = i
    /\ UNCHANGED <<input, fnVars>>

\* Lines 116-128 with the condition of line 128 false: next index.
Skip ==
    /\ pc = "scan"
    /\ i < Len(vertices)
    /\ ~IsClippable(vertices, i)
    /\ i' = i + 1
    /\ oob' = oob \cup OutOfRange(vertices, NeighbourReads(vertices, i), "neighbour")
    /\ UNCHANGED <<input, vertices, triangles, pc, earFound, fnVars>>

\* The scan without the guard of lines 138-141: it starts over.
NoEarRestart ==
    /\ pc = "scan"
    /\ i >= Len(vertices)
    /\ i' = 0
    /\ UNCHANGED <<input, vertices, triangles, pc, earFound, oob, fnVars>>

\* Lines 116 and 138-141: the scan ran over every index and found no ear.
NoEar ==
    /\ pc = "scan"
    /\ i >= Len(vertices)
    /\ ~earFound
    /\ pc' = "final"
    /\ UNCHANGED <<input, vertices, triangles, i, earFound, oob, fnVars>>

\* Line 145 taking the last three vertices for the first three.
FinalLastThree ==
    /\ pc = "final"
    /\ OutOfRange(vertices, FinalReads, "final") = {}
    /\ triangles' = Append(triangles,
           <<At(vertices, Len(vertices) - 3), At(vertices, Len(vertices) - 2),
             At(vertices, Len(vertices) - 1)>>)
    /\ pc' = "done"
    /\ UNCHANGED <<input, vertices, i, earFound, oob, fnVars>>

\* Line 145 with the three reads in range, and the return.
Final ==
    /\ pc = "final"
    /\ OutOfRange(vertices, FinalReads, "final") = {}
    /\ triangles' = Append(triangles, <<At(vertices, 0), At(vertices, 1), At(vertices, 2)>>)
    /\ pc' = "done"
    /\ UNCHANGED <<input, vertices, i, earFound, oob, fnVars>>

\* What reading element k of s yields: the element, or, out of range, any
\* value at all (undefined behaviour).
ReadValues(s, k) == IF InRange(s, k) THEN {At(s, k)} ELSE Points

\* Line 145 with a read out of range: undefined behaviour.  The program may
\* stop there, or go on with whatever the reads yield.
FinalOutOfRange ==
    /\ pc = "final"
    /\ OutOfRange(vertices, FinalReads, "final") # {}
    /\ oob' = oob \cup OutOfRange(vertices, FinalReads, "final")
    /\ \/ pc' = "crashed" /\ UNCHANGED triangles
       \/ /\ pc' = "done"
          /\ \E a \in ReadValues(vertices, 0), b \in ReadValues(vertices, 1),
                c \in ReadValues(vertices, 2) :
                triangles' = Append(triangles, <<a, b, c>>)
    /\ UNCHANGED <<input, vertices, i, earFound, fnVars>>

Next ==
    \/ Normalize
    \/ Clip
    \/ Skip
    \/ NoEar
    \/ Final
    \/ FinalOutOfRange

Spec == Init /\ [][Next]_vars

\* A running program takes its next step.
FairSpec == Spec /\ WF_vars(Next)

----------------------------------------------------------------------------
\* isClockwise and isPointInsideTriangle applied alone

InitFn ==
    /\ input = <<>>
    /\ vertices = <<>>
    /\ triangles = <<>>
    /\ pc = "idle"
    /\ i = 0
    /\ earFound = FALSE
    /\ oob = {}
    /\ fnOut = <<>>
    /\ \/ fn = "isClockwise" /\ IsPolygon(fnPoly, MaxFnN) /\ fnTri = <<>>
       \/ fn = "isPointInsideTriangle" /\ fnPoly = <<>> /\ fnTri \in FnTriangles

\* isClockwise(P)
ApplyIsClockwise ==
    /\ fn = "isClockwise"
    /\ Len(fnOut) = 0
    /\ fnOut' = <<isClockwise(fnPoly)>>
    /\ UNCHANGED <<triVars, fn, fnPoly, fnTri>>

\* isClockwise of P reversed by std::reverse
ApplyIsClockwiseReversed ==
    /\ fn = "isClockwise"
    /\ Len(fnOut) = 1
    /\ fnOut' = Append(fnOut, isClockwise(Reverse(fnPoly)))
    /\ UNCHANGED <<triVars, fn, fnPoly, fnTri>>

\* isPointInsideTriangle(point, prev, current, next)
ApplyIsPointInsideTriangle ==
    /\ fn = "isPointInsideTriangle"
    /\ Len(fnOut) = 0
    /\ fnOut' = <<isPointInsideTriangle(fnTri[1], fnTri[2], fnTri[3], fnTri[4])>>
    /\ UNCHANGED <<triVars, fn, fnPoly, fnTri>>

NextFn ==
    \/ ApplyIsClockwise
    \/ ApplyIsClockwiseReversed
    \/ ApplyIsPointInsideTriangle

SpecFn == InitFn /\ [][NextFn]_vars

----------------------------------------------------------------------------
\* Geometry the properties are stated in (none of it is the program's)

Abs(n) == IF n < 0 THEN -n ELSE n

\* Twice the signed area of triangle (a, b, c): negative when a, b, c run
\* clockwise (y upwards), zero when they are collinear.
Orient(a, b, c) == (b.x - a.x) * (c.y - a.y) - (b.y - a.y) * (c.x - a.x)

Between(lo, v, hi) == (lo <= v /\ v <= hi) \/ (hi <= v /\ v <= lo)

\* p lies on the closed segment from a to b.
OnSegment(a, b, p) ==
    Orient(a, b, p) = 0 /\ Between(a.x, p.x, b.x) /\ Between(a.y, p.y, b.y)

\* The closed segments ab and cd have a point in common.
SegmentsMeet(a, b, c, d) ==
    \/ /\ Orient(a, b, c) * Orient(a, b, d) < 0
       /\ Orient(c, d, a) * Orient(c, d, b) < 0
    \/ OnSegment(a, b, c)
    \/ OnSegment(a, b, d)
    \/ OnSegment(c, d, a)
    \/ OnSegment(c, d, b)

\* Edge k of the closed polygon s runs from s[k] to s[Succ(s, k)].
Succ(s, k) == (k % Len(s)) + 1

Distinct(s) == \A k, m \in 1..Len(s) : k # m => s[k] # s[m]

\* A simple polygon: at least 3 distinct vertices, consecutive edges share
\* only their common vertex, and other edges share no point.
IsSimple(s) ==
    /\ Len(s) >= 3
    /\ Distinct(s)
    /\ \A k \in 1..Len(s) :
           /\ ~OnSegment(s[Succ(s, k)], s[Succ(s, Succ(s, k))], s[k])
           /\ ~OnSegment(s[k], s[Succ(s, k)], s[Succ(s, Succ(s, k))])
    /\ \A k, m \in 1..Len(s) :
           (k # m /\ Succ(s, k) # m /\ Succ(s, m) # k)
               => ~SegmentsMeet(s[k], s[Succ(s, k)], s[m], s[Succ(s, m)])

NoThreeCollinear(s) ==
    \A k, m, n \in 1..Len(s) :
        (k < m /\ m < n) => Orient(s[k], s[m], s[n]) # 0

\* p lies in the closed triangle (a, b, c): the three triangles p makes with
\* its sides tile it.
InClosedTriangle(p, a, b, c) ==
    Abs(Orient(p, a, b)) + Abs(Orient(p, b, c)) + Abs(Orient(p, c, a))
        = Abs(Orient(a, b, c))

\* Twice the sum of the unsigned areas of the triangles of ts.
RECURSIVE AreaSum(_)
AreaSum(ts) ==
    IF ts = <<>> THEN 0
    ELSE Abs(Orient(Head(ts)[1], Head(ts)[2], Head(ts)[3])) + AreaSum(Tail(ts))

\* Twice the unsigned shoelace area of polygon s.
PolygonArea(s) == Abs(ShoelaceSum(s, Len(s)))

Range(s) == {s[k] : k \in 1..Len(s)}

\* triangulate has returned after clipping down to 3 vertices.
FullyClipped == pc = "done" /\ Len(input) >= 3 /\ Len(vertices) = 3

\* triangulate has left its loop by the no-ear exit.
EarlyExit == pc \in {"final", "done"} /\ Len(vertices) > 3

\* s has a left turn and a right turn: it is not convex.
IsConcave(s) ==
    \E k, m \in 1..Len(s) :
        Orient(s[k], s[Succ(s, k)], s[Succ(s, Succ(s, k))])
            * Orient(s[m], s[Succ(s, m)], s[Succ(s, Succ(s, m))]) < 0

\* t is made of three cyclically consecutive vertices of s.
Consecutive(s, t) ==
    \E k \in 1..Len(s) : t = <<s[k], s[Succ(s, k)], s[Succ(s, Succ(s, k))]>>

\* s without the middle vertex of the cyclically consecutive triple t.
ClippedFrom(s, t, r) ==
    \E k \in 1..Len(s) :
        /\ t = <<s[k], s[Succ(s, k)], s[Succ(s, Succ(s, k))]>>
        /\ r = [m \in 1..(Len(s) - 1) |-> IF m < Succ(s, k) THEN s[m] ELSE s[m + 1]]

Collinear3 == <<Vec2f(0, 0), Vec2f(1, 0), Vec2f(2, 0)>>

----------------------------------------------------------------------------
\* Properties

\* C1 (area conservation): when triangulate has clipped a simple polygon down
\* to 3 vertices, the unsigned areas of the returned triangles add up to the
\* unsigned shoelace area of the input polygon.
C1_AreaConservation ==
    (FullyClipped /\ IsSimple(input))
        => AreaSum(triangles) = PolygonArea(input)

\* The polygon of main(): 3 triangles whose areas add up to the polygon's.
C1_Witness ==
    /\ FullyClipped
    /\ input = DemoPolygon
    /\ IsSimple(input)
    /\ Len(triangles) = 3
    /\ AreaSum(triangles) = PolygonArea(input)
    /\ PolygonArea(input) > 0

\* C2 (triangle count): a simple polygon of n >= 3 vertices clipped down to 3
\* vertices gives exactly n - 2 triangles; for n = 3 the scan is never
\* entered and exactly 1 triangle is returned.
C2_TriangleCount ==
    /\ (FullyClipped /\ IsSimple(input)) => Len(triangles) = Len(input) - 2
    /\ Len(input) = 3 => pc # "scan"
    /\ (Len(input) = 3 /\ pc = "done") => Len(triangles) = 1

\* A concave simple pentagon fully clipped: 2 clips and the final triangle.
C2_Witness ==
    /\ FullyClipped
    /\ IsSimple(input)
    /\ IsConcave(input)
    /\ Len(input) = 5
    /\ Len(triangles) = 3

\* C3 (no early exit on a simple polygon in general position): for a simple
\* polygon of n >= 4 distinct vertices, no three of them collinear, every scan
\* still has a convex ear ahead of it, the state "scan over, no ear" is never
\* reached, and the loop is left with exactly 3 vertices.
C3_NoEarlyExit ==
    (IsSimple(input) /\ Len(input) >= 4 /\ Distinct(input) /\ NoThreeCollinear(input))
        => /\ pc = "scan" => \E k \in i..(Len(vertices) - 1) : IsClippable(vertices, k)
           /\ ~(pc = "scan" /\ i >= Len(vertices))
           /\ pc \in {"final", "done"} => Len(vertices) = 3

\* A concave pentagon in general position, clipped to 3 vertices by a scan
\* that had to pass over a vertex.
C3_Witness ==
    /\ pc = "final"
    /\ IsSimple(input)
    /\ NoThreeCollinear(input)
    /\ IsConcave(input)
    /\ Len(input) = 5
    /\ Len(vertices) = 3
    /\ i > 0

\* C4 (termination): on every input of n >= 3 vertices triangulate returns,
\* with no read out of range; every step of the scan passes to the next
\* index, removes exactly one vertex or leaves the loop, and no more than
\* n - 3 vertices are clipped.
C4_Termination ==
    /\ <>(Len(input) < 3 \/ pc = "done")
    /\ [](Len(input) >= 3
            => /\ oob = {}
               /\ pc # "crashed"
               /\ Len(vertices) >= 3
               /\ pc # "done" => Len(triangles) = Len(input) - Len(vertices)
               /\ pc # "done" => Len(triangles) <= Len(input) - 3)
    /\ [][(Len(input) >= 3 /\ pc = "scan")
            => \/ vertices' = vertices /\ pc' = "scan" /\ i' = i + 1
               \/ Len(vertices') = Len(vertices) - 1 /\ Len(triangles') = Len(triangles) + 1
               \/ vertices' = vertices /\ pc' = "final" /\ ~earFound']_vars

\* The collinear input of the claim: one degenerate triangle, no bad read.
C4_Witness ==
    /\ pc = "done"
    /\ input = Collinear3
    /\ oob = {}
    /\ Len(triangles) = 1
    /\ AreaSum(triangles) = 0

\* C5 (vertex subset): on every input of n >= 3 vertices, early exit or not,
\* every point of every triangle is a vertex of the input; a clip appends
\* three cyclically consecutive vertices of the sequence as it stands and
\* removes the middle one.
C5_VertexSubset ==
    /\ [](Len(input) >= 3
            => \A t \in Range(triangles) : \A k \in 1..3 : t[k] \in Range(input))
    /\ [][(Len(input) >= 3 /\ pc = "scan" /\ Len(triangles') > Len(triangles))
            => /\ triangles' = Append(triangles, triangles'[Len(triangles')])
               /\ Consecutive(vertices, triangles'[Len(triangles')])
               /\ ClippedFrom(vertices, triangles'[Len(triangles')], vertices')]_vars

\* A run that clipped an ear and then left by the no-ear exit.
C5_Witness ==
    /\ pc = "done"
    /\ Len(input) = 5
    /\ Len(vertices) = 4
    /\ Len(triangles) = 2
    /\ \A t \in Range(triangles) : \A k \in 1..3 : t[k] \in Range(input)

\* C6 (orientation normalization): isClockwise of a vertex sequence and of
\* its reversal are opposite when the shoelace sum is not 0, and both false
\* when it is 0.
C6_OrientationNormalization ==
    (fn = "isClockwise" /\ Len(fnOut) = 2)
        => /\ ShoelaceSum(fnPoly, Len(fnPoly)) # 0 => fnOut[1] # fnOut[2]
           /\ ShoelaceSum(fnPoly, Len(fnPoly)) = 0 => (~fnOut[1] /\ ~fnOut[2])

\* A counter-clockwise quadrilateral: false as given, true reversed.
C6_Witness ==
    /\ fn = "isClockwise"
    /\ Len(fnPoly) = 4
    /\ IsSimple(fnPoly)
    /\ fnOut = <<FALSE, TRUE>>

\* C7 as first stated: on every input of n >= 4 vertices the vertex sequence
\* is clockwise whenever the scan calls isConvex.
C7_ClockwiseAtEveryCall ==
    (Len(input) >= 4 /\ pc = "scan" /\ i < Len(vertices))
        => isClockwise(vertices)

\* C7 (amended): on every simple polygon of n >= 4 vertices the vertex
\* sequence is clockwise whenever the scan calls isConvex.
C7_ClockwiseAtCallSimple ==
    (IsSimple(input) /\ Len(input) >= 4 /\ pc = "scan" /\ i < Len(vertices))
        => isClockwise(vertices)

\* A counter-clockwise simple pentagon, reversed and with one ear clipped,
\* at a call of isConvex.
C7_Witness ==
    /\ IsSimple(input)
    /\ ~isClockwise(input)
    /\ Len(input) = 5
    /\ pc = "scan"
    /\ Len(vertices) = 4
    /\ i < Len(vertices)
    /\ isClockwise(vertices)

\* C8 (boundary-inclusive containment): for a strictly clockwise triangle
\* (prev, current, next), isPointInsideTriangle is true exactly of the points
\* of the closed triangle.
C8_ClosedTriangle ==
    (fn = "isPointInsideTriangle" /\ Len(fnOut) = 1
        /\ Orient(fnTri[2], fnTri[3], fnTri[4]) < 0)
        => (fnOut[1] <=> InClosedTriangle(fnTri[1], fnTri[2], fnTri[3], fnTri[4]))

\* A point inside an edge of a strictly clockwise triangle is reported inside.
C8_Witness ==
    /\ fn = "isPointInsideTriangle"
    /\ fnOut = <<TRUE>>
    /\ Orient(fnTri[2], fnTri[3], fnTri[4]) < 0
    /\ isConvex(fnTri[2], fnTri[3], fnTri[4])
    /\ OnSegment(fnTri[4], fnTri[2], fnTri[1])
    /\ fnTri[1] \notin {fnTri[2], fnTri[3], fnTri[4]}

\* C9 (silent partial result): after a scan over m > 3 vertices that found no
\* ear, triangulate goes on to return, with no read out of range; it appends
\* (vertices[0], vertices[1], vertices[2]) to the triangles emitted so far,
\* leaves the m vertices in place, and returns n - m + 1 < n - 2 triangles.
C9_SilentPartial ==
    /\ [][(Len(input) >= 3 /\ pc = "scan" /\ i >= Len(vertices))
            => (pc' = "final" /\ Len(vertices') > 3 /\ UNCHANGED <<vertices, triangles, oob>>)]_vars
    /\ [][(Len(input) >= 3 /\ pc = "final" /\ Len(vertices) > 3)
            => /\ pc' = "done"
               /\ triangles' = Append(triangles, <<vertices[1], vertices[2], vertices[3]>>)
               /\ UNCHANGED <<vertices, oob>>]_vars
    /\ []((Len(input) >= 3 /\ pc = "done" /\ Len(vertices) > 3)
            => /\ Len(triangles) = Len(input) - Len(vertices) + 1
               /\ Len(triangles) < Len(input) - 2
               /\ triangles[Len(triangles)] = <<vertices[1], vertices[2], vertices[3]>>
               /\ oob = {})

\* One ear clipped from a pentagon, then the no-ear exit: 2 triangles, and a
\* fourth vertex the final triangle does not have.
C9_Witness ==
    /\ pc = "done"
    /\ Len(input) = 5
    /\ Len(vertices) = 4
    /\ Len(triangles) = 2
    /\ triangles[2] = <<vertices[1], vertices[2], vertices[3]>>
    /\ vertices[4] \notin Range(triangles[2])

\* C10 as first stated: on an input of fewer than 3 vertices triangulate
\* reads out of range, and does so in a modulo-based index lookup.
C10_OutOfRangeInModuloLookup ==
    (Len(input) < 3 /\ pc \in {"done", "crashed"})
        => (oob # {} /\ oob \subseteq {"neighbour", "isClockwise"})

\* C10 (amended): on an input of fewer than 3 vertices triangulate never
\* enters its scan, reads out of range when it builds the final triangle
\* (line 145) and nowhere else, and ends either stopped or returning one
\* triangle, with no error value.
C10_OutOfRangeInFinalTriangle ==
    Len(input) < 3
        => /\ pc \in {"start", "final", "done", "crashed"}
           /\ pc \in {"done", "crashed"} => oob = {"final"}
           /\ pc \in {"start", "final"} => oob = {}
           /\ pc = "done" => Len(triangles) = 1
           /\ pc = "crashed" => Len(triangles) = 0

\* A 2-vertex input returned as a triangle whose third point was read out of
\* range.
C10_Witness ==
    /\ Len(input) = 2
    /\ pc = "done"
    /\ oob = {"final"}
    /\ Len(triangles) = 1
    /\ triangles[1][1] = input[1] \/ triangles[1][1] = input[2]

====
